---- MODULE Spec2Model ----
(***************************************************************************)
(* A model of the Users data-access object of src/dynamoDB/users.py and of *)
(* the part of the remote DynamoDB service its calls reach.                *)
(*                                                                         *)
(* The client is single-threaded and blocking: one call at a time, each a  *)
(* round trip to the service.  The service is the account in region        *)
(* us-east-1 (src/utils/db_helper.py): tables have a life cycle            *)
(* ABSENT -> CREATING -> ACTIVE -> DELETING -> ABSENT, creation and        *)
(* deletion complete asynchronously, and every request can be refused by   *)
(* the service for reasons the client does not control (throttling,        *)
(* credentials, ...), which the model draws as the input `fault`.          *)
(* Reads of the base table are taken as consistent.                        *)
(***************************************************************************)
EXTENDS Naturals, FiniteSets

VARIABLES
    status,     \* remote: table name -> life-cycle state
    hasIndex,   \* remote: table name -> whether it carries the index 'name-index'
    items,      \* remote: table name -> set of records
    table,      \* self.table: the bound table's name, or None
    pc,         \* "idle", or "waiting" inside create_table's wait_until_exists
    polls,      \* attempts the waiter has made in the current wait
    call,       \* the call that completed last: what was asked, what the service answered
    ret         \* what that call returned or raised

vars == <<status, hasIndex, items, table, pc, polls, call, ret>>

----------------------------------------------------------------------------
(* Bounds of the model *)

\* attempts of the table-exists waiter before it gives up (botocore: 25)
MaxPolls == 1
\* records held by the service over all tables
MaxItems == 2

----------------------------------------------------------------------------
(* Data *)

None == "None"

\* 'users' is the name __init__ and exists() hard-code; create_table takes any name
UsersTable == "users"
TableNames == {UsersTable, "other"}

\* the (user_id, full_name) pairs callers use: two share a user_id
Keys == {<<"u1", "f1">>, <<"u1", "f2">>, <<"u2", "f1">>}
UserIds == {k[1] : k \in Keys}
KeyAttrs == {"user_id", "full_name"}
\* attribute names callers pass to update_user as keywords
AttrNames == {"name", "email"}
Values == {"a"}
\* DynamoDB rejects an expression that names a reserved word without an
\* ExpressionAttributeNames placeholder; NAME (like STATUS) is one, EMAIL is not
ReservedWords == {"name"}

\* Item={'user_id': user_id, 'full_name': full_name}
Item(u, f) == [a \in KeyAttrs |-> IF a = "user_id" THEN u ELSE f]

\* **kwargs: a mapping from some attribute names to values, possibly empty
Kwargs == UNION {[S -> Values] : S \in SUBSET AttrNames}
NoAttrs == [a \in {} |-> "a"]

HasKey(r, u, f) == r["user_id"] = u /\ r["full_name"] = f
SameKey(r, q) == r["user_id"] = q["user_id"] /\ r["full_name"] = q["full_name"]

\* the records a set holds under a key
Under(S, key) == {r \in S : SameKey(r, key)}

TotalItems == Cardinality(UNION {{<<t, r>> : r \in items[t]} : t \in TableNames})

----------------------------------------------------------------------------
(* What a call hands back to its caller *)

Outcome(out, err, null, bool, recs, attrs, names) ==
    [out |-> out, err |-> err, null |-> null, bool |-> bool,
     recs |-> recs, attrs |-> attrs, names |-> names]

\* an exception leaves the method
Raise(e) == Outcome("raise", e, FALSE, FALSE, {}, NoAttrs, {})
\* return None
RetNone == Outcome("return", "", TRUE, FALSE, {}, NoAttrs, {})
\* return True / return False
RetBool(b) == Outcome("return", "", FALSE, b, {}, NoAttrs, {})
\* return response['Items']
RetItems(s) == Outcome("return", "", FALSE, FALSE, s, NoAttrs, {})
\* return response['Attributes']
RetAttributes(m) == Outcome("return", "", FALSE, FALSE, {}, m, {})
\* return response (put_item), return self.table (create_table)
RetObject == Outcome("return", "", FALSE, FALSE, {}, NoAttrs, {})
\* return tables
RetTables(n) == Outcome("return", "", FALSE, FALSE, {}, NoAttrs, n)

\* A completed call: its name, the keywords given to update_user, the records
\* the bound table held under the call's key when it began, and the service's
\* answer to its request ("-" when the call failed before making one).
Completed(op, kwargs, old, svc, r) ==
    /\ call' = [op |-> op, kwargs |-> kwargs, old |-> old, svc |-> svc]
    /\ ret' = r

Remote == <<status, hasIndex, items>>

----------------------------------------------------------------------------
(* The service's answers.  `fault` is a refusal the client does not control. *)

OK == "ok"
NotFoundCode == "ResourceNotFoundException"
InUseCode == "ResourceInUseException"
ValidationCode == "ValidationException"
FaultCode == "InternalServerError"

\* DescribeTable answers for a table in any state but ABSENT
DescribeTable(t, fault) ==
    IF fault THEN FaultCode
    ELSE IF status[t] = "ABSENT" THEN NotFoundCode ELSE OK

CreateTable(t, fault) ==
    IF fault THEN FaultCode
    ELSE IF status[t] # "ABSENT" THEN InUseCode ELSE OK

DeleteTable(t, fault) ==
    IF fault THEN FaultCode
    ELSE IF status[t] = "ABSENT" THEN NotFoundCode
    ELSE IF status[t] # "ACTIVE" THEN InUseCode ELSE OK

\* item requests are served for ACTIVE tables only
ItemRequest(t, fault) ==
    IF fault THEN FaultCode
    ELSE IF status[t] # "ACTIVE" THEN NotFoundCode ELSE OK

\* a query that names an index the table does not have is invalid
IndexRequest(t, fault) ==
    IF ItemRequest(t, fault) # OK THEN ItemRequest(t, fault)
    ELSE IF ~hasIndex[t] THEN ValidationCode ELSE OK

\* for k, v in kwargs.items(): "k=:k" joined after "set ": the attribute
\* paths the expression names, each written as the bare keyword
UpdateExpressionPaths(kwargs) == DOMAIN kwargs

\* the service parses the expression: "set " with no assignment is a syntax
\* error, and so is a bare path that is a reserved word
ExpressionValid(paths) == paths # {} /\ paths \cap ReservedWords = {}

UpdateRequest(t, fault, paths) ==
    IF fault THEN FaultCode
    ELSE IF ~ExpressionValid(paths) THEN ValidationCode
    ELSE IF status[t] # "ACTIVE" THEN NotFoundCode ELSE OK

----------------------------------------------------------------------------
(* __init__ : the table reference is bound by name, with no round trip.   *)
(* The remote table outlives the process: 'users' may or may not exist,   *)
(* and an existing one may carry the index 'name-index'.                  *)

Init ==
    /\ status \in {s \in [TableNames -> {"ABSENT", "ACTIVE"}] :
                      \A t \in TableNames \ {UsersTable} : s[t] = "ABSENT"}
    /\ hasIndex \in {h \in [TableNames -> BOOLEAN] :
                        \A t \in TableNames : h[t] => status[t] = "ACTIVE"}
    /\ items = [t \in TableNames |-> {}]
    /\ table = UsersTable
    /\ pc = "idle"
    /\ polls = 0
    /\ call = [op |-> "__init__", kwargs |-> NoAttrs, old |-> {}, svc |-> "-"]
    /\ ret = RetObject

----------------------------------------------------------------------------
(* Table management *)

\* variant: every error code is taken for table-not-found
IsNotFoundAny(code) == TRUE

\* err.response['Error']['Code'] == 'ResourceNotFoundException'
IsNotFound(code) == code = NotFoundCode

exists ==
    /\ pc = "idle"
    /\ \E fault \in BOOLEAN :
        LET answer == DescribeTable(UsersTable, fault) IN
        IF answer = OK
        THEN /\ table' = UsersTable
             /\ Completed("exists", NoAttrs, {}, answer, RetBool(TRUE))
             /\ UNCHANGED <<Remote, pc, polls>>
        ELSE IF IsNotFound(answer)
        THEN /\ Completed("exists", NoAttrs, {}, answer, RetBool(FALSE))
             /\ UNCHANGED <<Remote, table, pc, polls>>
        ELSE /\ Completed("exists", NoAttrs, {}, answer, Raise("ClientError"))
             /\ UNCHANGED <<Remote, table, pc, polls>>

list_tables ==
    /\ pc = "idle"
    /\ \E fault \in BOOLEAN :
        IF fault
        THEN Completed("list_tables", NoAttrs, {}, FaultCode, Raise("ClientError"))
        ELSE Completed("list_tables", NoAttrs, {}, OK,
                       RetTables({t \in TableNames : status[t] # "ABSENT"}))
    /\ UNCHANGED <<Remote, table, pc, polls>>

\* dyn_resource.create_table(...): the table is declared with the two key
\* attributes only, without GlobalSecondaryIndexes
NewTable(table_name) ==
    /\ status' = [status EXCEPT ![table_name] = "CREATING"]
    /\ hasIndex' = [hasIndex EXCEPT ![table_name] = FALSE]
    /\ items' = [items EXCEPT ![table_name] = {}]

\* create_table up to the point where it blocks in wait_until_exists
create_table(table_name) ==
    /\ pc = "idle"
    /\ \E fault \in BOOLEAN :
        LET answer == CreateTable(table_name, fault) IN
        IF answer # OK
        THEN /\ Completed("create_table", NoAttrs, {}, answer, Raise("ClientError"))
             /\ UNCHANGED <<Remote, table, pc, polls>>
        ELSE /\ NewTable(table_name)
             /\ table' = table_name
             /\ pc' = "waiting"
             /\ polls' = 0
             /\ UNCHANGED <<call, ret>>

\* variant: the waiter is satisfied by any answer
WaiterDoneAtOnce(t) == TRUE

\* the waiter's success condition: DescribeTable reports TableStatus ACTIVE
WaiterDone(t) == status[t] = "ACTIVE"

\* self.table.wait_until_exists(), one attempt; then `return self.table`.
\* A waiter that fails or gives up raises WaiterError, which is no ClientError.
wait_until_exists ==
    /\ pc = "waiting"
    /\ \E fault \in BOOLEAN :
        IF fault
        THEN /\ pc' = "idle"
             /\ Completed("create_table", NoAttrs, {}, FaultCode, Raise("WaiterError"))
             /\ UNCHANGED <<Remote, table, polls>>
        ELSE IF WaiterDone(table)
        THEN /\ pc' = "idle"
             /\ Completed("create_table", NoAttrs, {}, OK, RetObject)
             /\ UNCHANGED <<Remote, table, polls>>
        ELSE IF polls < MaxPolls
        THEN /\ polls' = polls + 1
             /\ UNCHANGED <<Remote, table, pc, call, ret>>
        ELSE /\ pc' = "idle"
             /\ Completed("create_table", NoAttrs, {}, OK, Raise("WaiterError"))
             /\ UNCHANGED <<Remote, table, polls>>

\* self.table.delete(); self.table = None
delete_table ==
    /\ pc = "idle"
    /\ IF table = None
       THEN \* None has no attribute 'delete'
            /\ Completed("delete_table", NoAttrs, {}, "-", Raise("AttributeError"))
            /\ UNCHANGED <<Remote, table, pc, polls>>
       ELSE \E fault \in BOOLEAN :
            LET answer == DeleteTable(table, fault) IN
            IF answer # OK
            THEN /\ Completed("delete_table", NoAttrs, {}, answer, Raise("ClientError"))
                 /\ UNCHANGED <<Remote, table, pc, polls>>
            ELSE /\ status' = [status EXCEPT ![table] = "DELETING"]
                 /\ items' = [items EXCEPT ![table] = {}]
                 /\ table' = None
                 /\ Completed("delete_table", NoAttrs, {}, answer, RetNone)
                 /\ UNCHANGED <<hasIndex, pc, polls>>

----------------------------------------------------------------------------
(* The service's item operations on a table's set of records *)

\* variant: the item is added beside what the table holds under its key
PutItemBeside(S, it) == S \cup {it}

\* variant: a record already under the key is kept as it is
PutItemKeep(S, it) == IF Under(S, it) # {} THEN S ELSE S \cup {it}

\* PutItem: the item replaces whatever the table holds under its key
PutItem(S, it) == (S \ Under(S, it)) \cup {it}

\* Query with KeyConditionExpression Key('user_id').eq(user_id)
QueryById(S, user_id) == {r \in S : r["user_id"] = user_id}

\* Query on IndexName 'name-index' with Key('name').eq(name): the index holds
\* the records that carry the attribute
QueryByName(S, name) == {r \in S : "name" \in DOMAIN r /\ r["name"] = name}

\* SET on one record
SetAttrs(r, kwargs) ==
    [a \in DOMAIN r \cup DOMAIN kwargs |->
        IF a \in DOMAIN kwargs THEN kwargs[a] ELSE r[a]]

\* variant: only a record the table holds is edited
UpdateItemExisting(S, key, kwargs) ==
    (S \ Under(S, key)) \cup {SetAttrs(r, kwargs) : r \in Under(S, key)}

\* UpdateItem with no ConditionExpression: the record under the key is
\* edited, and created from the key when the table holds none
UpdateItem(S, key, kwargs) ==
    LET old == IF Under(S, key) # {} THEN CHOOSE r \in S : SameKey(r, key) ELSE key
    IN  (S \ Under(S, key)) \cup {SetAttrs(old, kwargs)}

\* variant: every record of the key's user_id is removed
DeleteItemByUserId(S, key) == {r \in S : r["user_id"] # key["user_id"]}

\* DeleteItem: succeeds whether or not the key is present
DeleteItem(S, key) == S \ Under(S, key)

\* room for one more record under the model's bound
Room(S, key) == Under(S, key) # {} \/ TotalItems < MaxItems

\* the records the bound table holds under a key as a call begins
Held(key) == IF table = None THEN {} ELSE Under(items[table], key)

----------------------------------------------------------------------------
(* Record operations *)

add_user(user_id, full_name) ==
    LET key == Item(user_id, full_name) IN
    /\ pc = "idle"
    /\ IF table = None
       THEN \* AttributeError, caught by `except Exception`
            /\ Completed("add_user", NoAttrs, {}, "-", RetNone)
            /\ UNCHANGED <<Remote, table, pc, polls>>
       ELSE \E fault \in BOOLEAN :
            LET answer == ItemRequest(table, fault) IN
            IF answer # OK
            THEN /\ Completed("add_user", NoAttrs, Held(key), answer, RetNone)
                 /\ UNCHANGED <<Remote, table, pc, polls>>
            ELSE /\ Room(items[table], key)
                 /\ items' = [items EXCEPT ![table] = PutItem(@, key)]
                 /\ Completed("add_user", NoAttrs, Held(key), answer, RetObject)
                 /\ UNCHANGED <<status, hasIndex, table, pc, polls>>

query_by_user_id(user_id) ==
    /\ pc = "idle"
    /\ IF table = None
       THEN Completed("query_by_user_id", NoAttrs, {}, "-", RetNone)
       ELSE \E fault \in BOOLEAN :
            LET answer == ItemRequest(table, fault) IN
            IF answer # OK
            THEN Completed("query_by_user_id", NoAttrs, {}, answer, RetNone)
            ELSE Completed("query_by_user_id", NoAttrs, {}, answer,
                           RetItems(QueryById(items[table], user_id)))
    /\ UNCHANGED <<Remote, table, pc, polls>>

query_by_user_name(name) ==
    /\ pc = "idle"
    /\ IF table = None
       THEN Completed("query_by_user_name", NoAttrs, {}, "-", RetNone)
       ELSE \E fault \in BOOLEAN :
            LET answer == IndexRequest(table, fault) IN
            IF answer # OK
            THEN Completed("query_by_user_name", NoAttrs, {}, answer, RetNone)
            ELSE Completed("query_by_user_name", NoAttrs, {}, answer,
                           RetItems(QueryByName(items[table], name)))
    /\ UNCHANGED <<Remote, table, pc, polls>>

update_user(user_id, full_name, kwargs) ==
    LET key == Item(user_id, full_name) IN
    /\ pc = "idle"
    /\ IF table = None
       THEN /\ Completed("update_user", kwargs, {}, "-", RetNone)
            /\ UNCHANGED <<Remote, table, pc, polls>>
       ELSE \E fault \in BOOLEAN :
            LET answer == UpdateRequest(table, fault, UpdateExpressionPaths(kwargs)) IN
            IF answer # OK
            THEN /\ Completed("update_user", kwargs, Held(key), answer, RetNone)
                 /\ UNCHANGED <<Remote, table, pc, polls>>
            ELSE /\ Room(items[table], key)
                 /\ items' = [items EXCEPT ![table] = UpdateItem(@, key, kwargs)]
                 \* ReturnValues="UPDATED_NEW": the attributes the SET wrote
                 /\ Completed("update_user", kwargs, Held(key), answer,
                              RetAttributes(kwargs))
                 /\ UNCHANGED <<status, hasIndex, table, pc, polls>>

\* `except ClientError` of delete_user_by_id: what it catches
Caught(e) == e = "ClientError"

\* the handler's `return False`, or the exception on its way out
DeleteFailed(e) == IF Caught(e) THEN RetBool(FALSE) ELSE Raise(e)

delete_user_by_id(user_id, full_name) ==
    LET key == Item(user_id, full_name) IN
    /\ pc = "idle"
    /\ IF table = None
       THEN /\ Completed("delete_user_by_id", NoAttrs, {}, "-",
                         DeleteFailed("AttributeError"))
            /\ UNCHANGED <<Remote, table, pc, polls>>
       ELSE \E fault \in BOOLEAN :
            LET answer == ItemRequest(table, fault) IN
            IF answer # OK
            THEN /\ Completed("delete_user_by_id", NoAttrs, Held(key), answer,
                              DeleteFailed("ClientError"))
                 /\ UNCHANGED <<Remote, table, pc, polls>>
            ELSE /\ items' = [items EXCEPT ![table] = DeleteItem(@, key)]
                 /\ Completed("delete_user_by_id", NoAttrs, Held(key), answer,
                              RetBool(TRUE))
                 /\ UNCHANGED <<status, hasIndex, table, pc, polls>>

----------------------------------------------------------------------------
(* The service completes what it was asked to do *)

ServiceActivate ==
    \E t \in TableNames :
        /\ status[t] = "CREATING"
        /\ status' = [status EXCEPT ![t] = "ACTIVE"]
        /\ UNCHANGED <<hasIndex, items, table, pc, polls, call, ret>>

ServiceFinishDelete ==
    \E t \in TableNames :
        /\ status[t] = "DELETING"
        /\ status' = [status EXCEPT ![t] = "ABSENT"]
        /\ hasIndex' = [hasIndex EXCEPT ![t] = FALSE]
        /\ UNCHANGED <<items, table, pc, polls, call, ret>>

Next ==
    \/ exists
    \/ list_tables
    \/ \E n \in TableNames : create_table(n)
    \/ wait_until_exists
    \/ delete_table
    \/ \E k \in Keys : add_user(k[1], k[2])
    \/ \E u \in UserIds : query_by_user_id(u)
    \/ \E n \in Values : query_by_user_name(n)
    \/ \E k \in Keys, kw \in Kwargs : update_user(k[1], k[2], kw)
    \/ \E k \in Keys : delete_user_by_id(k[1], k[2])
    \/ ServiceActivate
    \/ ServiceFinishDelete

Spec == Init /\ [][Next]_vars

\* a caller that keeps asking, against a service that keeps working
LiveSpec ==
    /\ Init /\ [][Next]_vars
    /\ WF_vars(Next)
    /\ \A n \in Values : SF_vars(query_by_user_name(n))

----------------------------------------------------------------------------
(* Vocabulary of the properties *)

RecordOps == {"add_user", "query_by_user_id", "query_by_user_name",
              "update_user", "delete_user_by_id"}
TableOps == {"exists", "list_tables", "create_table", "delete_table"}

ReturnedNormally == ret.out = "return"
NonNull == ret.out = "return" /\ ~ret.null

\* no two records of a result share (user_id, full_name)
NoDuplicates(S) == \A r, q \in S : SameKey(r, q) => r = q

\* the records of the bound table
Bound == IF table = None THEN {} ELSE items[table]

----------------------------------------------------------------------------
\* C1: every record operation completes by returning, never by raising, and
\* returns its sentinel (None; False for delete_user_by_id) whenever its
\* request failed or could not be made.
C1_FailSoft ==
    call.op \in RecordOps =>
        /\ ret.out = "return"
        /\ call.svc # OK =>
              ret = IF call.op = "delete_user_by_id" THEN RetBool(FALSE) ELSE RetNone

----------------------------------------------------------------------------
\* C2: a table-management call whose request the service answered with an
\* error raises, except that exists() returns False on table-not-found; and
\* create_table for a table that already exists raises, leaving the bound
\* table and the service as they were.
C2_Propagates ==
    call.op \in TableOps /\ call.svc \notin {OK, "-"} =>
        IF call.op = "exists" /\ call.svc = NotFoundCode
        THEN ret = RetBool(FALSE)
        ELSE ret.out = "raise"

C2_FailFast ==
    [][ /\ C2_Propagates'
        /\ \A n \in TableNames :
              create_table(n) /\ status[n] # "ABSENT" =>
                  /\ ret'.out = "raise"
                  /\ call'.op = "create_table"
                  /\ UNCHANGED <<Remote, table>>
      ]_vars

\* create_table was refused because the table exists
C2_Witness ==
    call.op = "create_table" /\ call.svc = InUseCode /\ ret.out = "raise"

----------------------------------------------------------------------------
\* C3: exists() called right after a delete_table() that returned normally
\* returns False, and exists() called right after a create_table(name) that
\* returned normally returns True, whatever the name.
C3_ExistsFollowsTable ==
    [][ exists /\ ReturnedNormally /\ ReturnedNormally' =>
            /\ call.op = "delete_table" => ret'.bool = FALSE
            /\ call.op = "create_table" => ret'.bool = TRUE
      ]_vars

----------------------------------------------------------------------------
\* C4: when create_table has returned normally the table it bound is ACTIVE,
\* and an add_user or query_by_user_id made next returns a non-null result
\* unless the service refuses that request for a reason of its own.
JustCreated == pc = "idle" /\ call.op = "create_table" /\ ReturnedNormally

C4_ActiveOnReturn ==
    [][ /\ JustCreated' => table' # None /\ status'[table'] = "ACTIVE"
        /\ JustCreated /\ call'.op \in {"add_user", "query_by_user_id"} =>
              /\ \A k \in Keys :
                    add_user(k[1], k[2]) /\ call'.svc # FaultCode => NonNull'
              /\ \A u \in UserIds :
                    query_by_user_id(u) /\ call'.svc # FaultCode => NonNull'
      ]_vars

\* create_table returned after the waiter had found the table not yet ACTIVE
C4_Witness ==
    /\ JustCreated
    /\ polls > 0
    /\ status[table] = "ACTIVE"

----------------------------------------------------------------------------
\* C5: after add_user(user_id, full_name) succeeds for a pair the table did
\* not hold, the records of that user_id include exactly one with that pair;
\* query_by_user_id returns the bound table's records of the user_id; and no
\* table and no query result ever holds two records with the same pair.
C5_AddThenQuery ==
    [][ /\ call'.op = "add_user" =>
              \A k \in Keys :
                  add_user(k[1], k[2]) /\ NonNull' /\ Held(Item(k[1], k[2])) = {} =>
                      Cardinality({r \in QueryById(Bound', k[1]) :
                                      HasKey(r, k[1], k[2])}) = 1
        /\ call'.op = "query_by_user_id" =>
              \A u \in UserIds :
                  query_by_user_id(u) /\ NonNull' => ret'.recs = QueryById(Bound, u)
        /\ NoDuplicates(ret'.recs)
        /\ \A t \in TableNames : NoDuplicates(items'[t])
      ]_vars

\* a query returned the two records that share a user_id
C5_Witness ==
    /\ call.op = "query_by_user_id" /\ NonNull
    /\ Cardinality(ret.recs) = 2

----------------------------------------------------------------------------
\* C6: a successful add_user(user_id, full_name) leaves under that pair
\* exactly the record holding user_id and full_name alone, whatever the table
\* held under it, and leaves every other record alone; repeated on a record
\* it has just written it changes nothing.
C6_Overwrite ==
    [][ call'.op = "add_user" =>
          \A k \in Keys :
              LET key == Item(k[1], k[2]) IN
              add_user(k[1], k[2]) /\ NonNull' =>
                  /\ Under(Bound', key) = {key}
                  /\ Bound' \ {key} = Bound \ Under(Bound, key)
                  /\ key \in Bound => items' = items
      ]_vars

\* add_user overwrote a record that update_user had extended
C6_Witness ==
    /\ call.op = "add_user" /\ NonNull
    /\ \E r \in call.old : "email" \in DOMAIN r
    /\ \E r \in call.old : Under(Bound, r) = {Item(r["user_id"], r["full_name"])}

----------------------------------------------------------------------------
\* C7: update_user with at least one field on an existing record returns the
\* mapping of the supplied fields to their values, and the record then holds
\* those values with its other attributes unchanged (unless the service
\* refuses the request for a reason of its own).
C7_UpdateReturnsFields ==
    [][ call'.op = "update_user" /\ call'.svc # FaultCode =>
          \A k \in Keys :
              LET key == Item(k[1], k[2])
                  kw == call'.kwargs
              IN  update_user(k[1], k[2], kw) /\ DOMAIN kw # {} /\ Held(key) # {}
                  => /\ ret' = RetAttributes(kw)
                     /\ \A r \in Held(key) : Under(Bound', key) = {SetAttrs(r, kw)}
      ]_vars

----------------------------------------------------------------------------
\* C8 as stated: update_user for a pair with no record, and update_user with
\* no field, return None.
C8_MissingOrEmptyIsNone ==
    [][ call'.op = "update_user" =>
          \A k \in Keys :
              LET kw == call'.kwargs IN
              /\ update_user(k[1], k[2], kw)
              /\ Held(Item(k[1], k[2])) = {} \/ DOMAIN kw = {}
              => ret' = RetNone
      ]_vars

\* C8 amended: update_user with no field returns None and changes nothing.
\* update_user with fields for a pair with no record returns None exactly when
\* its request fails; when the service accepts it, the record is created from
\* the pair and the fields and the call returns the mapping of the fields.
C8_EmptyIsNoneMissingIsCreated ==
    [][ call'.op = "update_user" =>
          \A k \in Keys :
              LET key == Item(k[1], k[2])
                  kw == call'.kwargs
              IN  update_user(k[1], k[2], kw) =>
                    /\ DOMAIN kw = {} => ret' = RetNone /\ items' = items
                    /\ DOMAIN kw # {} /\ Held(key) = {} =>
                          IF call'.svc = OK
                          THEN /\ ret' = RetAttributes(kw)
                               /\ Bound' = Bound \cup {SetAttrs(key, kw)}
                          ELSE ret' = RetNone /\ items' = items
      ]_vars

\* update_user created a record and returned its fields
C8_Witness ==
    /\ call.op = "update_user" /\ call.svc = OK
    /\ call.old = {}
    /\ ret.attrs = call.kwargs /\ DOMAIN ret.attrs # {}
    /\ \E r \in Bound : "email" \in DOMAIN r

----------------------------------------------------------------------------
\* C9: delete_user_by_id on a pair the table holds returns True (unless the
\* service refuses the request for a reason of its own); afterwards the
\* records of every user_id are those of before without the record of that
\* pair, and query_by_user_id returns exactly those records.
C9_DeleteFrame ==
    [][ /\ call'.op = "delete_user_by_id" /\ call'.svc # FaultCode =>
              \A k \in Keys :
                  LET key == Item(k[1], k[2]) IN
                  delete_user_by_id(k[1], k[2]) /\ Held(key) # {} =>
                      /\ ret' = RetBool(TRUE)
                      /\ table' = table
                      /\ \A u \in UserIds :
                            QueryById(Bound', u) = QueryById(Bound, u) \ Held(key)
                      /\ \A t \in TableNames \ {table} : items'[t] = items[t]
        /\ call'.op = "query_by_user_id" =>
              \A u \in UserIds :
                  query_by_user_id(u) /\ NonNull' => ret'.recs = QueryById(Bound, u)
      ]_vars

\* a record was deleted and another of the same user_id is still there
C9_Witness ==
    /\ call.op = "delete_user_by_id" /\ ret = RetBool(TRUE)
    /\ \E o \in call.old : \E r \in Bound : r["user_id"] = o["user_id"]

----------------------------------------------------------------------------
\* C10: on a table made by create_table, once update_user has been called
\* with name=n on a record the table holds, a query_by_user_name(n) eventually
\* returns a result holding that record (as long as the record is there); and
\* query_by_user_name(n) returns only records whose name is n.
NameGiven(k, n) ==
    /\ call.op = "update_user"
    /\ "name" \in DOMAIN call.kwargs /\ call.kwargs["name"] = n
    /\ \E r \in call.old : HasKey(r, k[1], k[2])
    /\ table \in TableNames \ {UsersTable}

FoundByName(k) ==
    /\ call.op = "query_by_user_name" /\ NonNull
    /\ \E r \in ret.recs : HasKey(r, k[1], k[2])

Gone(k) ==
    \/ table \notin TableNames \ {UsersTable}
    \/ Under(Bound, Item(k[1], k[2])) = {}

C10_NameQueryEventuallyFinds ==
    /\ \A k \in Keys, n \in Values : NameGiven(k, n) ~> (FoundByName(k) \/ Gone(k))
    /\ [](call.op = "query_by_user_name" =>
            \A r \in ret.recs : "name" \in DOMAIN r)

====
